---- MODULE Spec2Model ----
(***************************************************************************)
(* A model of @tjk/sentry-vue3 (src/src/sdk.ts): the VueHelper class that  *)
(* turns Vue 3 lifecycle hook firings into tracing spans (one debounced    *)
(* "Application Render" root span plus child spans per component and       *)
(* operation), the setup-detection timer, and the wrapped error handler.   *)
(*                                                                         *)
(* The JavaScript run time is single threaded: every handler below runs to *)
(* completion, so each handler is one atomic action.  Timers are entries   *)
(* of a pending set which the event loop may run once their delay passed.  *)
(***************************************************************************)
EXTENDS Integers, Sequences, FiniteSets, TLC

(***************************************************************************)
(* Bounds of the model.                                                    *)
(***************************************************************************)
\* The clock (timestampWithMs, in ms) advances MaxTicks times, by TickMs each.
MaxTicks == 2
\* A hook of one instance is fired at most MaxExec times; at most MaxPaired times
\* where the framework fires the hooks of an operation in pairs.
MaxExec == 2
MaxPaired == 3
\* Transactions put on the scope during one run.
MaxTx == 2
\* Runs of the wrapped error handler, and event-loop turns other than captures.
MaxErrors == 2
MaxTurns == 1

(***************************************************************************)
(* Program constants.                                                      *)
(***************************************************************************)
\* setTimeout(..., 500) of _startTracing.
SetupDelay == 500

\* The granularity of the clock: half the setup delay.
TickMs == SetupDelay \div 2

\* const enum LifecycleHook
LifecycleHook == {"bc", "c", "bm", "m", "bu", "u", "bum", "um", "da", "a"}

\* Mappings from operation to corresponding lifecycle hook.
HOOKS ==
  [ activate |-> <<"a", "da">>,
    create   |-> <<"bc", "c">>,
    unmount  |-> <<"bum", "um">>,
    mount    |-> <<"bm", "m">>,
    update   |-> <<"bu", "u">> ]

(***************************************************************************)
(* Strings of the file-path hint are sequences of characters, so that      *)
(* basename and classify are computed, not assumed.                        *)
(***************************************************************************)
Upper ==
  [ c \in {"a","b","c","d","e","f","g","h","i","j","k","l","m","n","o","p",
           "q","r","s","t","u","v","w","x","y","z"} |->
      CASE c = "a" -> "A" [] c = "b" -> "B" [] c = "c" -> "C" [] c = "d" -> "D"
        [] c = "e" -> "E" [] c = "f" -> "F" [] c = "g" -> "G" [] c = "h" -> "H"
        [] c = "i" -> "I" [] c = "j" -> "J" [] c = "k" -> "K" [] c = "l" -> "L"
        [] c = "m" -> "M" [] c = "n" -> "N" [] c = "o" -> "O" [] c = "p" -> "P"
        [] c = "q" -> "Q" [] c = "r" -> "R" [] c = "s" -> "S" [] c = "t" -> "T"
        [] c = "u" -> "U" [] c = "v" -> "V" [] c = "w" -> "W" [] c = "x" -> "X"
        [] c = "y" -> "Y" [] c = "z" -> "Z" ]

\* function toUpper(_, c): the captured character in upper case.
toUpper(c) == IF c \in DOMAIN Upper THEN Upper[c] ELSE c

\* \w of classifyRE: here letters, digits are not used in the hints.
IsWordChar(c) == c \in DOMAIN Upper \/ c \in {Upper[x] : x \in DOMAIN Upper} \/ c = "_"

\* @sentry/utils basename(path, ext): the part after the last "/", without ext.
RECURSIVE LastSlash(_, _)
LastSlash(s, k) == IF k = 0 THEN 0 ELSE IF s[k] = "/" THEN k ELSE LastSlash(s, k - 1)

basename(path, ext) ==
  LET f == SubSeq(path, LastSlash(path, Len(path)) + 1, Len(path))
      n == Len(f) - Len(ext)
  IN  IF n >= 0 /\ SubSeq(f, n + 1, Len(f)) = ext THEN SubSeq(f, 1, n) ELSE f

\* classify: str.replace(/(?:^|[-_/])(\w)/g, toUpper), scanning left to right.
RECURSIVE classifyFrom(_, _)
classifyFrom(s, k) ==
  IF k > Len(s) THEN ""
  ELSE IF k = 1 /\ IsWordChar(s[1])
       THEN toUpper(s[1]) \o classifyFrom(s, 2)
  ELSE IF s[k] \in {"-", "_", "/"} /\ k < Len(s) /\ IsWordChar(s[k + 1])
       THEN toUpper(s[k + 1]) \o classifyFrom(s, k + 2)
  ELSE s[k] \o classifyFrom(s, k + 1)

classify(s) == classifyFrom(s, 1)

(***************************************************************************)
(* The component tree the host framework presents: instance 1 is the root  *)
(* (instance.root === instance), instance 2 is its child.  The root's type *)
(* was compiled from src/App.vue; the child's type has no name of its own  *)
(* and is registered by its parent under the key "Widget".                 *)
(***************************************************************************)
Instances == {1, 2}
RootUid == 1

\* Component type descriptors (instance.type), by identity; "" and << >> stand
\* for undefined, uid 0 for a descriptor without a uid.
Types ==
  [ App     |-> [name |-> "", _componentTag |-> "", uid |-> 0,
                 __file |-> <<"s","r","c","/","m","y","-","a","p","p",".","v","u","e">>,
                 components |-> << <<"Card", "CardT">>, <<"Widget", "WidgetT">> >>],
    WidgetT |-> [name |-> "", _componentTag |-> "", uid |-> 0, __file |-> << >>,
                 components |-> << >>] ]

\* instance.type, instance.parent (0: none) of each uid.
TypeOf(uid) == IF uid = RootUid THEN "App" ELSE "WidgetT"
ParentOf(uid) == IF uid = RootUid THEN 0 ELSE RootUid
IsRoot(uid) == uid = RootUid

\* instance.appContext.components: the application-wide registry.
AppComponents == << >>

VARIABLES
  options,        \* this._options.tracingOptions (+ attachProps, logErrors)
  clock,          \* timestampWithMs()
  activeTx,       \* getActiveTransaction(): 0 when none
  txCount,        \* transactions started so far
  installCache,   \* this._installCache
  nameCache,      \* this._nameCache
  names,          \* `name` captured by each instance's handlers ("" before install)
  hookCbs,        \* instance[hook], for the hooks that have a list: [op, execNumber]
                  \* of each injected doHook
  isUnmounted,    \* instance.isUnmounted
  rootSpan,       \* this._rootSpan: index into spans, 0 when undefined
  rootSpanTimer,  \* this._rootSpanTimer: a timer id, 0 when undefined
  timers,         \* pending idle timers: [id, ts, due]
  spans,          \* every span started so far
  slots,          \* `spans` of each instance's closure: operation -> index into spans
  setupTimer,     \* appliedTracingHooks: "none", "pending", "cancelled", "fired"
  warnings,       \* messages given to logger.warn
  lastCall,       \* observation: the latest _finishRootSpan call [ts, root, n],
                  \* n = how many calls (counted to 2) this root span has had
  hostHandler,    \* typeof currentErrorHandler === 'function'
  turn,           \* the event-loop turn (macrotask) now running
  tasks,          \* callbacks of setTimeout(fn) of the error handler, not yet run
  captured,       \* what getCurrentHub().captureException received
  calls,          \* observation: one record per run of the wrapped error handler
  router          \* the router and what vueRouterInstrumentation did with it

vars ==
  << options, clock, activeTx, txCount, installCache, nameCache, names, hookCbs,
     isUnmounted, rootSpan, rootSpanTimer, timers, spans, slots, setupTimer,
     warnings, lastCall, hostHandler, turn, tasks, captured, calls, router >>

(***************************************************************************)
(* Component Namer.                                                        *)
(***************************************************************************)
\* _saveComponentName: this._nameCache[instance.uid] = name
saveComponentName(cache, uid, name) == [cache EXCEPT ![uid] = name]

\* this._nameCache[options.uid]: the cache is read under the uid of the TYPE
\* descriptor ("" stands for undefined, as for a uid the cache does not hold).
cacheLookup(cache, key) == IF key \in DOMAIN cache THEN cache[key] ELSE ""

\* _getComponentTypeName(options): "" stands for undefined.
getComponentTypeName(cache, t) ==
  LET o == Types[t]
      name == IF o.name # "" THEN o.name
              ELSE IF o._componentTag # "" THEN o._componentTag
              ELSE cacheLookup(cache, o.uid)
  IN  IF name # "" THEN name
      ELSE IF o.__file # << >> THEN classify(basename(o.__file, <<".", "v", "u", "e">>))
      ELSE ""

\* The first key of a component registry whose value is the type t ("" if none).
RECURSIVE scanComponents(_, _, _)
scanComponents(reg, t, k) ==
  IF k > Len(reg) THEN ""
  ELSE IF reg[k][2] = t THEN reg[k][1]
  ELSE scanComponents(reg, t, k + 1)

\* _getComponentName(instance): the name and the cache it leaves.
getComponentName(cache, uid) ==
  LET name   == getComponentTypeName(cache, TypeOf(uid))
      parent == IF ParentOf(uid) = 0 THEN << >> ELSE Types[TypeOf(ParentOf(uid))].components
      inPar  == scanComponents(parent, TypeOf(uid), 1)
      inApp  == scanComponents(AppComponents, TypeOf(uid), 1)
  IN  IF name # "" THEN [name |-> name, cache |-> cache]
      ELSE IF IsRoot(uid) THEN [name |-> "Root", cache |-> cache]
      ELSE IF inPar # "" THEN [name |-> inPar, cache |-> saveComponentName(cache, uid, inPar)]
      ELSE IF inApp # "" THEN [name |-> inApp, cache |-> saveComponentName(cache, uid, inApp)]
      ELSE [name |-> "Anonymous Component", cache |-> cache]

(***************************************************************************)
(* Span Lifecycle Engine.  The handlers are functions of the engine state  *)
(* e = [rootSpan, rootSpanTimer, timers, spans, slots, lastCall].          *)
(***************************************************************************)
Engine ==
  [ rootSpan |-> rootSpan, rootSpanTimer |-> rootSpanTimer, timers |-> timers,
    spans |-> spans, slots |-> slots, lastCall |-> lastCall ]

\* The handle setTimeout returns: an id no pending timer has.
NewTimerId(pending) ==
  CHOOSE k \in 1..(Cardinality(pending) + 1) :
    /\ \A t \in pending : t.id # k
    /\ \A j \in 1..(k - 1) : \E t \in pending : t.id = j

\* Fault variant of clearTimeout: the timer stays pending.
clearTimeoutNot(pending, handle) == pending

\* clearTimeout(handle)
clearTimeout(pending, handle) == {t \in pending : t.id # handle}

\* _finishRootSpan(timestamp): cancel the pending idle timer, schedule a new one
\* whose callback holds `timestamp`.
finishRootSpan(e, timestamp) ==
  LET cleared == IF e.rootSpanTimer # 0 THEN clearTimeout(e.timers, e.rootSpanTimer)
                 ELSE e.timers
      id == NewTimerId(cleared)
  IN  [e EXCEPT
        !.timers = cleared \cup
                     {[id |-> id, ts |-> timestamp, due |-> clock + options.timeout]},
        !.rootSpanTimer = id,
        !.lastCall = [ts |-> timestamp, root |-> e.rootSpan,
                      n |-> IF e.lastCall.root = e.rootSpan /\ e.rootSpan # 0
                            THEN (IF e.lastCall.n < 2 THEN e.lastCall.n + 1 ELSE 2)
                            ELSE 1]]

\* parent.startChild({description, op}): a new span, started now.
startChild(parent, description, op, uid) ==
  [ parent |-> parent, description |-> description, op |-> op, inst |-> uid,
    start |-> clock, finishes |-> 0, endTimestamp |-> 0 ]

\* span.finish(timestamp)
finish(span, timestamp) ==
  [span EXCEPT !.finishes = @ + 1, !.endTimestamp = timestamp]

\* Fault variant of rootHandler: the execNumber test comes before the look at
\* this._rootSpan, so a root span is started over one that is still open.
rootHandlerRestart(e, execNumber) ==
  IF execNumber = 1 /\ activeTx # 0
  THEN [e EXCEPT
         !.spans = Append(@, startChild(<<"tx", activeTx>>, "Application Render",
                                        "Vue", RootUid)),
         !.rootSpan = Len(e.spans) + 1]
  ELSE IF e.rootSpan # 0 THEN finishRootSpan(e, clock) ELSE e

\* rootHandler(execNumber)
rootHandler(e, execNumber) ==
  IF e.rootSpan # 0
  THEN finishRootSpan(e, clock)
  ELSE IF execNumber = 1 /\ activeTx # 0
       THEN [e EXCEPT
              !.spans = Append(@, startChild(<<"tx", activeTx>>, "Application Render",
                                             "Vue", RootUid)),
              !.rootSpan = Len(e.spans) + 1]
       ELSE e

\* Fault variant of shouldTrack: a list of names taken as "track everything"
\* (the array used as the truthy flag).
shouldTrackAnyList(uid) ==
  IF options.trackComponents.isArray THEN TRUE ELSE options.trackComponents.flag

\* shouldTrack of childHandler
shouldTrack(uid) ==
  IF options.trackComponents.isArray
  THEN \E k \in DOMAIN options.trackComponents.list :
         options.trackComponents.list[k] = names[uid]
  ELSE options.trackComponents.flag

\* Fault variant of childOf: getActiveTransaction() || this._rootSpan
childOfTransactionFirst(e) ==
  IF activeTx # 0 THEN <<"tx", activeTx>>
  ELSE IF e.rootSpan # 0 THEN <<"span", e.rootSpan>>
  ELSE << >>

\* childOf of childHandler: this._rootSpan || getActiveTransaction()
childOf(e) ==
  IF e.rootSpan # 0 THEN <<"span", e.rootSpan>>
  ELSE IF activeTx # 0 THEN <<"tx", activeTx>>
  ELSE << >>

\* spans[operation] of the closure of instance uid: 0 stands for undefined.
slotOf(e, uid, operation) ==
  IF operation \in DOMAIN e.slots[uid] THEN e.slots[uid][operation] ELSE 0

\* Fault variant of childHandler: the execNumber test comes before the look at the
\* slot, so a span is opened over one that is still in the slot.
childHandlerReopen(e, uid, operation, execNumber) ==
  IF childOf(e) = << >> \/ ~shouldTrack(uid)
  THEN e
  ELSE IF execNumber = 1
       THEN [e EXCEPT
              !.spans = Append(@, startChild(childOf(e), names[uid], operation, uid)),
              !.slots[uid] = (operation :> (Len(e.spans) + 1)) @@ @]
       ELSE IF slotOf(e, uid, operation) # 0
            THEN finishRootSpan(
                   [e EXCEPT !.spans[slotOf(e, uid, operation)] = finish(@, clock)], clock)
            ELSE e

\* Fault variant of childHandler: the early return does not look at childOf (only
\* the inner `if (childOf)` guards the startChild).
childHandlerNoTraceGuard(e, uid, operation, execNumber) ==
  IF ~shouldTrack(uid)
  THEN e
  ELSE IF slotOf(e, uid, operation) # 0
       THEN finishRootSpan(
              [e EXCEPT !.spans[slotOf(e, uid, operation)] = finish(@, clock)], clock)
       ELSE IF execNumber = 1 /\ childOf(e) # << >>
            THEN [e EXCEPT
                   !.spans = Append(@, startChild(childOf(e), names[uid], operation, uid)),
                   !.slots[uid] = (operation :> (Len(e.spans) + 1)) @@ @]
            ELSE e

\* childHandler(operation, execNumber) of the instance uid
childHandler(e, uid, operation, execNumber) ==
  IF childOf(e) = << >> \/ ~shouldTrack(uid)
  THEN e
  ELSE IF slotOf(e, uid, operation) # 0
       THEN finishRootSpan(
              [e EXCEPT !.spans[slotOf(e, uid, operation)] = finish(@, clock)], clock)
       ELSE IF execNumber = 1
            THEN [e EXCEPT
                   !.spans = Append(@, startChild(childOf(e), names[uid], operation, uid)),
                   !.slots[uid] = (operation :> (Len(e.spans) + 1)) @@ @]
            ELSE e

\* The handler _applyTracingHooks binds for an instance.
handler(e, uid, operation, execNumber) ==
  IF IsRoot(uid) THEN rootHandler(e, execNumber)
  ELSE childHandler(e, uid, operation, execNumber)

\* Fault variant of doHook: fn is called whether or not the instance is unmounted.
doHookUnguarded(st, uid, k) ==
  [ e   |-> handler(st.e, uid, st.cbs[k].op, st.cbs[k].execNumber),
    cbs |-> [st.cbs EXCEPT ![k].execNumber = @ + 1] ]

\* doHook of _injectHook: st = [e, cbs], the k-th callback cbs[k] = [op, execNumber].
doHook(st, uid, k) ==
  IF ~isUnmounted[uid]
  THEN [ e   |-> handler(st.e, uid, st.cbs[k].op, st.cbs[k].execNumber),
         cbs |-> [st.cbs EXCEPT ![k].execNumber = @ + 1] ]
  ELSE st

\* The framework invokes every callback of instance[hook], first to last.
RECURSIVE callHooks(_, _, _)
callHooks(st, uid, k) ==
  IF k > Len(st.cbs) THEN st ELSE callHooks(doHook(st, uid, k), uid, k + 1)

\* _injectHook(instance, hook, fn): hooks = instance[hook] || (instance[hook] = []),
\* execNumber = 0, hooks.unshift(doHook).
injectHook(cbs, hook, operation) ==
  LET hooks == IF hook \in DOMAIN cbs THEN cbs[hook] ELSE << >>
  IN  (hook :> (<<[op |-> operation, execNumber |-> 0]>> \o hooks)) @@ cbs

\* The forEach of _applyTracingHooks over options.hooks, from the k-th operation:
\* st = [cbs, warnings].
RECURSIVE injectAll(_, _)
injectAll(st, k) ==
  IF k > Len(options.hooks) THEN st
  ELSE LET operation == options.hooks[k] IN
       IF operation \notin DOMAIN HOOKS
       THEN injectAll([st EXCEPT !.warnings = @ \cup {"Unknown hook"}], k + 1)
       ELSE injectAll(
              [st EXCEPT !.cbs = injectHook(injectHook(@, HOOKS[operation][1], operation),
                                            HOOKS[operation][2], operation)],
              k + 1)

\* Fault variant of alreadyInstalled: the install cache is not consulted.
alreadyInstalledNever(uid) == FALSE

\* The install guard of _applyTracingHooks: "Don't attach twice, just in case".
alreadyInstalled(uid) == installCache[uid]

(***************************************************************************)
(* Router instrumentation (vueRouterInstrumentation).  A route is its name *)
(* ("" for none) and its path; the router record holds what the function  *)
(* registered, the router's own state and what was started and captured.   *)
(***************************************************************************)
Routes == { [name |-> "home", path |-> "/"], [name |-> "", path |-> "/about"] }
NoRoute == [name |-> "", path |-> ""]

\* router.currentRoute before the initial navigation.
StartLocation == [name |-> "", path |-> "/"]

RouterIdle ==
  [ installed |-> FALSE,          \* onError and beforeEach are registered
    onPageLoad |-> FALSE, onLocationChange |-> FALSE,
    awaiting |-> FALSE,           \* the function is at `await router.isReady()`
    ready |-> FALSE,              \* the initial navigation is over
    currentRoute |-> StartLocation,
    pending |-> NoRoute,          \* the navigation under way
    navs |-> 0,                   \* navigations started so far
    txs |-> << >>,                \* the contexts startTransaction was called with
    nexts |-> << >>,              \* calls of next(), per run of the guard
    captured |-> 0 ]              \* captureException(err) of router.onError

\* getTransactionContext(route)
getTransactionContext(route) ==
  [ name |-> IF route.name # "" THEN route.name ELSE route.path,
    tags |-> <<"routing.instrumentation", "vue-router">> ]

\* startTransaction({...context, op}); ready: whether the router was ready then.
startTransaction(r, context, op) ==
  [r EXCEPT !.txs = Append(@, [name |-> context.name, tags |-> context.tags, op |-> op,
                               ready |-> r.ready])]

\* The guard given to router.beforeEach: (to, _from, next) => { ...; next() }
beforeEach(r, to) ==
  LET s == IF r.onLocationChange
           THEN startTransaction(r, getTransactionContext(to), "navigation")
           ELSE r
  IN  [s EXCEPT !.nexts = Append(@, 1)]

\* The function up to its await: router.onError(...), router.beforeEach(...).
instrument(r, startTransactionOnPageLoad, startTransactionOnLocationChange) ==
  [r EXCEPT !.installed = TRUE, !.awaiting = TRUE,
            !.onPageLoad = startTransactionOnPageLoad,
            !.onLocationChange = startTransactionOnLocationChange]

\* The function after `await router.isReady()`.
afterReady(r) ==
  LET s == IF r.onPageLoad
           THEN startTransaction(r, getTransactionContext(r.currentRoute), "pageload")
           ELSE r
  IN  [s EXCEPT !.awaiting = FALSE]

(***************************************************************************)
(* Initial state: after init() built the options and setup() ran           *)
(* _attachErrorHandler and _startTracing.                                  *)
(***************************************************************************)
\* tracingOptions the application may pass to init(); the defaults of init()
\* (hooks activate, mount, update; trackComponents false) are among them.
TrackChoices ==
  { [isArray |-> FALSE, flag |-> FALSE, list |-> << >>],
    [isArray |-> FALSE, flag |-> TRUE,  list |-> << >>],
    [isArray |-> TRUE,  flag |-> FALSE, list |-> <<"Card", "Widget">>],
    [isArray |-> TRUE,  flag |-> FALSE, list |-> <<"Card">>] }

HookChoices == { <<"render", "update">> }

TimeoutChoices == { TickMs }

NoCall == [ts |-> 0, root |-> 0, n |-> 0]

InitEngine ==
  /\ clock = 0
  /\ installCache = [i \in Instances |-> FALSE]
  /\ nameCache = [i \in Instances |-> ""]
  /\ names = [i \in Instances |-> ""]
  /\ hookCbs = [i \in Instances |-> << >>]
  /\ isUnmounted = [i \in Instances |-> FALSE]
  /\ rootSpan = 0
  /\ rootSpanTimer = 0
  /\ timers = {}
  /\ spans = << >>
  /\ slots = [i \in Instances |-> << >>]
  /\ setupTimer = "pending"
  /\ warnings = {}
  /\ lastCall = NoCall

InitErrors ==
  /\ turn = 0
  /\ tasks = << >>
  /\ captured = << >>
  /\ calls = << >>

Init ==
  /\ options \in
       { [trackComponents |-> t, hooks |-> h, timeout |-> d,
          attachProps |-> TRUE, logErrors |-> FALSE] :
         t \in TrackChoices, h \in HookChoices, d \in TimeoutChoices }
  /\ InitEngine
  /\ activeTx = 0
  /\ txCount = 0
  /\ hostHandler = FALSE
  /\ InitErrors
  /\ router = RouterIdle

(***************************************************************************)
(* Actions.                                                                *)
(***************************************************************************)
engineVars == << rootSpan, rootSpanTimer, timers, spans, slots, lastCall >>
errorVars == << hostHandler, turn, tasks, captured, calls >>
treeVars == << installCache, nameCache, names, hookCbs >>

\* Time passes.
Tick ==
  /\ clock < MaxTicks * TickMs
  /\ clock' = clock + TickMs
  /\ UNCHANGED << router, errorVars, options, activeTx, txCount, treeVars, isUnmounted, engineVars,
                  setupTimer, warnings >>

\* The application (or the router instrumentation) puts a transaction on the scope.
StartTransaction ==
  /\ txCount < MaxTx
  /\ txCount' = txCount + 1
  /\ activeTx' = txCount + 1
  /\ UNCHANGED << router, errorVars, options, clock, treeVars, isUnmounted, engineVars, setupTimer, warnings >>

\* The transaction on the scope ends.
EndTransaction ==
  /\ activeTx # 0
  /\ activeTx' = 0
  /\ UNCHANGED << router, errorVars, options, clock, txCount, treeVars, isUnmounted, engineVars,
                  setupTimer, warnings >>

\* _applyTracingHooks(vm): [installCache, nameCache, names, cbs, warnings] after it.
applyTracingHooks(uid) ==
  IF alreadyInstalled(uid)
  THEN [ installCache |-> installCache, nameCache |-> nameCache, names |-> names,
         cbs |-> hookCbs[uid], warnings |-> warnings ]
  ELSE LET r  == getComponentName(nameCache, uid)
           st == injectAll([cbs |-> hookCbs[uid], warnings |-> warnings], 1)
       IN  [ installCache |-> [installCache EXCEPT ![uid] = TRUE],
             nameCache |-> r.cache,
             names |-> [names EXCEPT ![uid] = r.name],
             cbs |-> st.cbs, warnings |-> st.warnings ]

\* Fault variant of cancelSetupTimer: the timer is left running.
cancelSetupTimerNot == setupTimer

\* clearTimeout(appliedTracingHooks) of the beforeCreate mixin.
cancelSetupTimer == IF setupTimer = "pending" THEN "cancelled" ELSE setupTimer

\* The beforeCreate mixin of _startTracing, run by the framework for an instance
\* (a child is created after its parent).
BeforeCreate(uid) ==
  /\ ParentOf(uid) # 0 => installCache[ParentOf(uid)]
  /\ setupTimer' = cancelSetupTimer
  /\ LET r == applyTracingHooks(uid) IN
       /\ installCache' = r.installCache
       /\ nameCache' = r.nameCache
       /\ names' = r.names
       /\ hookCbs' = [hookCbs EXCEPT ![uid] = r.cbs]
       /\ warnings' = r.warnings
  /\ UNCHANGED << router, errorVars, options, clock, activeTx, txCount, isUnmounted, engineVars >>

\* The callback of the setTimeout of _startTracing.
SetupTimerFire ==
  /\ setupTimer = "pending"
  /\ clock >= SetupDelay
  /\ setupTimer' = "fired"
  /\ warnings' = warnings \cup {"Didn't apply tracing hooks"}
  /\ UNCHANGED << router, errorVars, options, clock, activeTx, txCount, treeVars, isUnmounted, engineVars >>

\* The framework fires a lifecycle hook of an instance: it calls instance[hook]
\* (each injected callback at most cap times).
Fire(uid, hook, cap) ==
  /\ hook \in DOMAIN hookCbs[uid]
  /\ \A k \in DOMAIN hookCbs[uid][hook] : hookCbs[uid][hook][k].execNumber < cap
  /\ LET st == callHooks([e |-> Engine, cbs |-> hookCbs[uid][hook]], uid, 1) IN
       /\ hookCbs' = [hookCbs EXCEPT ![uid][hook] = st.cbs]
       /\ rootSpan' = st.e.rootSpan
       /\ rootSpanTimer' = st.e.rootSpanTimer
       /\ timers' = st.e.timers
       /\ spans' = st.e.spans
       /\ slots' = st.e.slots
       /\ lastCall' = st.e.lastCall
  /\ UNCHANGED << router, errorVars, options, clock, activeTx, txCount, installCache, nameCache, names,
                  isUnmounted, setupTimer, warnings >>

FireHook(uid, hook) == Fire(uid, hook, MaxExec)

\* The framework marks an instance unmounted.
Unmount(uid) ==
  /\ installCache[uid]
  /\ ~isUnmounted[uid]
  /\ isUnmounted' = [isUnmounted EXCEPT ![uid] = TRUE]
  /\ UNCHANGED << router, errorVars, options, clock, activeTx, txCount, treeVars, engineVars,
                  setupTimer, warnings >>

\* Fault variant of idleTimeout: the span finished at the time of expiry instead of
\* the timestamp the callback holds.
idleTimeoutAtExpiry(e, t) ==
  IF e.rootSpan # 0
  THEN [e EXCEPT !.spans[e.rootSpan] = finish(@, clock), !.rootSpan = 0]
  ELSE e

\* The callback of the setTimeout of _finishRootSpan, holding t.ts.
idleTimeout(e, t) ==
  IF e.rootSpan # 0
  THEN [e EXCEPT !.spans[e.rootSpan] = finish(@, t.ts), !.rootSpan = 0]
  ELSE e

\* The event loop runs a pending idle timer whose delay has passed.
IdleTimerFire(t) ==
  /\ t \in timers
  /\ clock >= t.due
  /\ LET e == idleTimeout([Engine EXCEPT !.timers = timers \ {t}], t) IN
       /\ rootSpan' = e.rootSpan
       /\ spans' = e.spans
       /\ timers' = e.timers
  /\ lastCall' = NoCall
  /\ UNCHANGED << router, errorVars, options, clock, activeTx, txCount, treeVars, isUnmounted,
                  rootSpanTimer, slots, setupTimer, warnings >>

Next ==
  \/ Tick
  \/ StartTransaction
  \/ EndTransaction
  \/ \E uid \in Instances : BeforeCreate(uid)
  \/ SetupTimerFire
  \/ \E uid \in Instances, hook \in LifecycleHook : FireHook(uid, hook)
  \/ \E uid \in Instances : Unmount(uid)
  \/ \E t \in timers : IdleTimerFire(t)

Spec == Init /\ [][Next]_vars

(***************************************************************************)
(* The framework fires the two hooks of an operation in pairs: the first   *)
(* ("before") hook, then the second ("after") hook, and so on.             *)
(***************************************************************************)
\* How often the injected callbacks of instance[hook] have run (0: none injected).
execCount(uid, hook) ==
  IF hook \in DOMAIN hookCbs[uid] THEN hookCbs[uid][hook][1].execNumber ELSE 0

isBefore(hook) == \E o \in DOMAIN HOOKS : HOOKS[o][1] = hook
isAfter(hook) == \E o \in DOMAIN HOOKS : HOOKS[o][2] = hook
pairOf(hook) == CHOOSE o \in DOMAIN HOOKS : hook \in {HOOKS[o][1], HOOKS[o][2]}

FirePaired(uid, hook) ==
  /\ \/ isBefore(hook) /\ execCount(uid, hook) = execCount(uid, HOOKS[pairOf(hook)][2])
     \/ isAfter(hook) /\ execCount(uid, HOOKS[pairOf(hook)][1]) = execCount(uid, hook) + 1
  /\ Fire(uid, hook, MaxPaired)

PairedNext ==
  \/ Tick
  \/ StartTransaction
  \/ EndTransaction
  \/ \E uid \in Instances : BeforeCreate(uid)
  \/ SetupTimerFire
  \/ \E uid \in Instances, hook \in LifecycleHook : FirePaired(uid, hook)
  \/ \E uid \in Instances : Unmount(uid)
  \/ \E t \in timers : IdleTimerFire(t)

PairedSpec == Init /\ [][PairedNext]_vars

(***************************************************************************)
(* Error Interception Adapter: the handler _attachErrorHandler installs as *)
(* app.config.errorHandler.                                                *)
(***************************************************************************)
\* Errors the framework reports, the component (vm) it reports them for and the
\* lifecycle phase (info, "" when not supplied).  vm.uid = 0 is vm === null;
\* throws says which lookup on the component fails, if any.
Errors == {"TypeError", "RangeError"}
NoVm == [uid |-> 0, throws |-> "none"]
Vms ==
  {NoVm, [uid |-> RootUid, throws |-> "none"]}
    \cup [uid : Instances \ {RootUid}, throws : {"none", "name", "props"}]
Infos == {"", "beforeUpdate"}

\* vm.$props
propsOf(vm) == <<"props", vm.uid>>

NoMetadata == [keys |-> {}, componentName |-> "", propsData |-> << >>, lifecycleHook |-> ""]

\* The state a run of the handler works on: st.thrown says that an exception is
\* propagating, which skips every statement up to a catch.
HandlerState ==
  [ nameCache |-> nameCache, metadata |-> NoMetadata, warned |-> FALSE, thrown |-> FALSE,
    tasks |-> tasks, captured |-> captured, host |-> << >>, logged |-> FALSE ]

\* The body of the try block: instance = vm._ || vm, componentName, propsData.
tryExtract(st, vm) ==
  IF vm.throws = "name" THEN [st EXCEPT !.thrown = TRUE]
  ELSE LET r == getComponentName(st.nameCache, vm.uid)
           named == [st EXCEPT !.nameCache = r.cache,
                               !.metadata.keys = @ \cup {"componentName"},
                               !.metadata.componentName = r.name]
       IN  IF ~options.attachProps THEN named
           ELSE IF vm.throws = "props" THEN [named EXCEPT !.thrown = TRUE]
           ELSE [named EXCEPT !.metadata.keys = @ \cup {"propsData"},
                              !.metadata.propsData = propsOf(vm)]

\* Fault variant of extractMetadata: no try/catch around the lookups.
extractMetadataNoCatch(st, vm) ==
  IF vm.uid = 0 THEN st ELSE tryExtract(st, vm)

\* const metadata = {}; if (vm) { try { ... } catch (_oO) { logger.warn(...) } }
extractMetadata(st, vm) ==
  IF vm.uid = 0 THEN st
  ELSE LET r == tryExtract(st, vm) IN
       IF r.thrown THEN [r EXCEPT !.thrown = FALSE, !.warned = TRUE] ELSE r

\* if (info) { metadata.lifecycleHook = info }
attachInfo(st, info) ==
  IF st.thrown \/ info = "" THEN st
  ELSE [st EXCEPT !.metadata.keys = @ \cup {"lifecycleHook"}, !.metadata.lifecycleHook = info]

\* Fault variant of scheduleCapture: the exception captured at once, in the turn of
\* the handler.
scheduleCaptureSync(st, k, err) ==
  IF st.thrown THEN st
  ELSE [st EXCEPT !.captured = Append(@, [call |-> k, err |-> err, context |-> st.metadata,
                                          turn |-> turn, tx |-> activeTx])]

\* setTimeout(() => { withScope(scope => { setContext('vue', metadata);
\* captureException(err) }) }): queued for a later turn.
scheduleCapture(st, k, err) ==
  IF st.thrown THEN st
  ELSE [st EXCEPT !.tasks = Append(@, [call |-> k, err |-> err, metadata |-> st.metadata])]

\* if (typeof currentErrorHandler === 'function') currentErrorHandler.call(app, err, vm, info)
callCurrentErrorHandler(st, k, err, vm, info) ==
  IF st.thrown \/ ~hostHandler THEN st
  ELSE [st EXCEPT !.host = Append(@, [err |-> err, vm |-> vm, info |-> info,
                                     scheduled |-> \E j \in DOMAIN st.tasks : st.tasks[j].call = k])]

\* if (this._options.logErrors) { warn(...); console.error(err) }
logError(st) == IF st.thrown THEN st ELSE [st EXCEPT !.logged = options.logErrors]

\* The wrapped error handler, from first statement to last.
errorHandler(st, k, err, vm, info) ==
  logError(
    callCurrentErrorHandler(
      scheduleCapture(attachInfo(extractMetadata(st, vm), info), k, err),
      k, err, vm, info))

\* The framework reports an error to app.config.errorHandler.
HandleError(err, vm, info) ==
  /\ Len(calls) < MaxErrors
  /\ LET k  == Len(calls) + 1
         st == errorHandler(HandlerState, k, err, vm, info)
     IN  /\ nameCache' = st.nameCache
         /\ tasks' = st.tasks
         /\ captured' = st.captured
         /\ warnings' = IF st.warned
                        THEN warnings \cup {"Unable to extract metadata from Vue component."}
                        ELSE warnings
         /\ calls' = Append(calls, [call |-> k, err |-> err, vm |-> vm, info |-> info,
                                    turn |-> turn, warned |-> st.warned, thrown |-> st.thrown,
                                    host |-> st.host, logged |-> st.logged])
  /\ UNCHANGED << router, options, clock, activeTx, txCount, installCache, names, hookCbs,
                  isUnmounted, engineVars, setupTimer, hostHandler, turn >>

\* The event loop runs the oldest setTimeout callback in a turn of its own.
RunCapture ==
  /\ tasks # << >>
  /\ turn' = turn + 1
  /\ captured' = Append(captured, [call |-> Head(tasks).call, err |-> Head(tasks).err,
                                   context |-> Head(tasks).metadata, turn |-> turn + 1,
                                   tx |-> activeTx])
  /\ tasks' = Tail(tasks)
  /\ UNCHANGED << router, options, clock, activeTx, txCount, treeVars, isUnmounted, engineVars,
                  setupTimer, warnings, hostHandler, calls >>

\* Another turn of the event loop begins.
NextTurn ==
  /\ turn < MaxTurns
  /\ turn' = turn + 1
  /\ UNCHANGED << router, options, clock, activeTx, txCount, treeVars, isUnmounted, engineVars,
                  setupTimer, warnings, hostHandler, tasks, captured, calls >>

\* init(): attachProps true and logErrors false unless given; tracingOptions as
\* defaulted.  A transaction may be on the scope or not.
ErrInit ==
  /\ options \in
       { [trackComponents |-> [isArray |-> FALSE, flag |-> FALSE, list |-> << >>],
          hooks |-> <<"activate", "mount", "update">>, timeout |-> 2000,
          attachProps |-> a, logErrors |-> l] : a \in BOOLEAN, l \in BOOLEAN }
  /\ InitEngine
  /\ activeTx \in {0, 1}
  /\ txCount = activeTx
  /\ hostHandler \in BOOLEAN
  /\ InitErrors
  /\ router = RouterIdle

ErrNext ==
  \/ \E err \in Errors, vm \in Vms, info \in Infos : HandleError(err, vm, info)
  \/ RunCapture
  \/ NextTurn

ErrSpec == ErrInit /\ [][ErrNext]_vars

(***************************************************************************)
(* The router and the instrumentation.  The application calls the          *)
(* instrumentation before or after the router's initial navigation; a      *)
(* navigation runs the registered guard when it starts and ends by         *)
(* succeeding or (once the router is ready) failing; the continuation of   *)
(* the await runs before anything else once the router is ready.           *)
(***************************************************************************)
MaxNavs == 3

\* The router record becomes r; a transaction that was started is put on the scope.
RouterStep(r) ==
  /\ router' = r
  /\ txCount' = txCount + (Len(r.txs) - Len(router.txs))
  /\ activeTx' = IF Len(r.txs) > Len(router.txs) THEN txCount' ELSE activeTx
  /\ UNCHANGED << errorVars, options, clock, treeVars, isUnmounted, engineVars, setupTimer,
                  warnings >>

\* The application calls the function vueRouterInstrumentation(router) returned.
Instrument(startTransactionOnPageLoad, startTransactionOnLocationChange) ==
  /\ ~router.installed
  /\ router.pending = NoRoute
  /\ RouterStep(instrument(router, startTransactionOnPageLoad,
                           startTransactionOnLocationChange))

\* A navigation starts: the router runs the beforeEach guards.
NavStart(to) ==
  /\ router.pending = NoRoute
  /\ router.navs < MaxNavs
  /\ ~(router.awaiting /\ router.ready)
  /\ LET r == IF router.installed THEN beforeEach(router, to) ELSE router IN
       RouterStep([r EXCEPT !.pending = to, !.navs = @ + 1])

\* The navigation under way succeeds; the first one to do so makes the router ready.
NavEnd ==
  /\ router.pending # NoRoute
  /\ RouterStep([router EXCEPT !.currentRoute = router.pending, !.pending = NoRoute,
                               !.ready = TRUE])

\* A navigation of the ready router fails: router.onError(err => captureException(err)).
NavFail ==
  /\ router.pending # NoRoute
  /\ router.ready
  /\ RouterStep([router EXCEPT !.pending = NoRoute,
                               !.captured = IF router.installed THEN @ + 1 ELSE @])

\* router.isReady() has resolved: the function goes on after its await.
Resume ==
  /\ router.awaiting
  /\ router.ready
  /\ router.pending = NoRoute
  /\ RouterStep(afterReady(router))

RouterInit ==
  /\ options = [trackComponents |-> [isArray |-> FALSE, flag |-> FALSE, list |-> << >>],
                hooks |-> <<"activate", "mount", "update">>, timeout |-> 2000,
                attachProps |-> TRUE, logErrors |-> FALSE]
  /\ InitEngine
  /\ activeTx = 0
  /\ txCount = 0
  /\ hostHandler = FALSE
  /\ InitErrors
  /\ router = RouterIdle

RouterNext ==
  \/ \E p \in BOOLEAN, l \in BOOLEAN : Instrument(p, l)
  \/ \E to \in Routes : NavStart(to)
  \/ NavEnd
  \/ NavFail
  \/ Resume

RouterSpec == RouterInit /\ [][RouterNext]_vars

(***************************************************************************)
(* Properties.                                                             *)
(***************************************************************************)
\* This step ran the injected callback of instance[hook] (the instance not being
\* unmounted): the handler was called with execNumber = execCount(uid, hook).
Called(uid, hook) ==
  /\ hook \in DOMAIN hookCbs[uid]
  /\ hookCbs'[uid][hook][1].execNumber = hookCbs[uid][hook][1].execNumber + 1

\* This step created a root span.
RootSpanCreated == rootSpan = 0 /\ rootSpan' # 0

IsRootSpan(k) == spans[k].op = "Vue"
IsChildSpan(k) == spans[k].op # "Vue"
OpenSpans(uid, operation) ==
  {k \in DOMAIN spans :
     IsChildSpan(k) /\ spans[k].inst = uid /\ spans[k].op = operation /\ spans[k].finishes = 0}

\* C1 (as claimed): where the framework fires the hooks in before/after pairs, with
\* a transaction active and no root span open the first "after" firing of a root
\* hook pair creates the root span, and no "before" firing ever creates one.
C1_RootSpanAtFirstAfter ==
  [][ \A hook \in LifecycleHook :
        Called(RootUid, hook) =>
          /\ isBefore(hook) => ~RootSpanCreated
          /\ (isAfter(hook) /\ execCount(RootUid, hook) = 0 /\ activeTx # 0 /\ rootSpan = 0)
               => RootSpanCreated ]_vars

\* C2: when the idle timer expires and the latest of the N >= 1 _finishRootSpan
\* calls was made for the root span now open, the span is finished exactly once,
\* with the timestamp of that latest call, and rootSpan is left empty; a root
\* span is never finished a second time.
C2_DebouncedFinish ==
  [][ /\ \A k \in DOMAIN spans : IsRootSpan(k) => spans'[k].finishes <= 1
      /\ \A t \in timers :
           (IdleTimerFire(t) /\ rootSpan # 0 /\ lastCall.root = rootSpan /\ lastCall.n >= 1)
             => /\ spans'[rootSpan].finishes = 1
                /\ spans'[rootSpan].endTimestamp = lastCall.ts
                /\ rootSpan' = 0 ]_vars

\* C2 witness: a root span closed by the timer after two calls: a child of it was
\* finished first (first call), the root handler called later (the timestamp the
\* span got), and the timer expired later still.
C2_Witness ==
  /\ rootSpan = 0
  /\ \E r \in DOMAIN spans, c \in DOMAIN spans :
       /\ IsRootSpan(r) /\ spans[r].finishes = 1
       /\ spans[c].parent = <<"span", r>> /\ spans[c].finishes = 1
       /\ spans[c].endTimestamp < spans[r].endTimestamp
       /\ spans[r].endTimestamp < clock

\* C3 (as claimed): for a tracked non-root instance with a root span or a
\* transaction available, the first "after" firing of an operation's pair opens a
\* child span in that operation's slot; the first "before" firing creates nothing.
C3_ChildSpanAtFirstAfter ==
  [][ \A uid \in Instances \ {RootUid}, hook \in LifecycleHook :
        (Called(uid, hook) /\ execCount(uid, hook) = 0
           /\ shouldTrack(uid) /\ childOf(Engine) # << >>)
          => /\ isBefore(hook) => spans' = spans
             /\ isAfter(hook) =>
                  /\ pairOf(hook) \in DOMAIN slots'[uid]
                  /\ Len(spans') = Len(spans) + 1 ]_vars

\* C4: every child span belongs to an instance trackComponents allows: none when
\* it is false, only instances whose resolved name is in the list when it is a list.
TrackedNames ==
  {options.trackComponents.list[k] : k \in DOMAIN options.trackComponents.list}

C4_TrackingFilter ==
  \A k \in DOMAIN spans :
    IsChildSpan(k) =>
      IF options.trackComponents.isArray
      THEN spans[k].description \in TrackedNames /\ names[spans[k].inst] \in TrackedNames
      ELSE options.trackComponents.flag = TRUE

\* C4 witness: under a list that holds the instance's name, a child span of it.
C4_Witness ==
  /\ options.trackComponents.isArray
  /\ \E k \in DOMAIN spans : IsChildSpan(k) /\ spans[k].description = "Widget"

\* How often the exception of the k-th run of the error handler is waiting to be
\* captured or has been captured.
CaptureCount(k) ==
  Cardinality({j \in DOMAIN tasks : tasks[j].call = k})
    + Cardinality({j \in DOMAIN captured : captured[j].call = k})

\* The metadata that goes (or went) with the exception of the k-th run.
MetadataOf(k) ==
  {tasks[j].metadata : j \in {i \in DOMAIN tasks : tasks[i].call = k}}
    \cup {captured[j].context : j \in {i \in DOMAIN captured : captured[i].call = k}}

\* C5: every run of the wrapped error handler calls the previous handler, if there
\* was one, once, with the original arguments, in the run itself and after the
\* capture was scheduled; the exception is captured in a later turn, never in the
\* turn of the run and never twice, with no transaction active as well, and with
\* info as lifecycleHook when info was given.
C5_HostSyncCaptureDeferred ==
  /\ \A i \in DOMAIN calls :
       LET c == calls[i] IN
       /\ c.call = i
       /\ c.host = IF hostHandler
                   THEN <<[err |-> c.err, vm |-> c.vm, info |-> c.info, scheduled |-> TRUE]>>
                   ELSE << >>
       /\ CaptureCount(i) = 1
       /\ \A m \in MetadataOf(i) :
            IF c.info # ""
            THEN "lifecycleHook" \in m.keys /\ m.lifecycleHook = c.info
            ELSE "lifecycleHook" \notin m.keys
  /\ \A j \in DOMAIN captured :
       /\ captured[j].call \in DOMAIN calls
       /\ captured[j].turn > calls[captured[j].call].turn
       /\ captured[j].err = calls[captured[j].call].err

\* C5 witness: with no transaction active and a previous handler installed, an
\* error reported during beforeUpdate has been captured with that phase.
C5_Witness ==
  /\ hostHandler
  /\ \E j \in DOMAIN captured :
       /\ captured[j].tx = 0
       /\ captured[j].context.lifecycleHook = "beforeUpdate"
       /\ Len(calls[captured[j].call].host) = 1

\* C6: no instance has two open child spans of the same operation.
C6_OneOpenSpanPerSlot ==
  \A uid \in Instances, operation \in DOMAIN HOOKS :
    Cardinality(OpenSpans(uid, operation)) <= 1

\* C6 witness: an open child span of an operation both of whose hooks have fired.
C6_Witness ==
  \E uid \in Instances, operation \in DOMAIN HOOKS :
    /\ Cardinality(OpenSpans(uid, operation)) = 1
    /\ execCount(uid, HOOKS[operation][1]) >= 1
    /\ execCount(uid, HOOKS[operation][2]) >= 1

\* C7: a handler called while no transaction is active and no root span is open
\* starts no span, finishes none, touches no slot and leaves the idle timer alone.
C7_NoTraceSilentSkip ==
  [][ \A uid \in Instances, hook \in LifecycleHook :
        (Called(uid, hook) /\ activeTx = 0 /\ rootSpan = 0)
          => UNCHANGED << rootSpan, rootSpanTimer, timers, spans, slots >> ]_vars

\* C7 witness: no transaction was ever active, the root's and the child's handlers
\* have each been called with execNumber 1, and nothing was created or scheduled.
C7_Witness ==
  /\ txCount = 0
  /\ \E h1 \in LifecycleHook, h2 \in LifecycleHook :
       execCount(RootUid, h1) = 2 /\ \E uid \in Instances \ {RootUid} : execCount(uid, h2) = 2
  /\ spans = << >> /\ timers = {} /\ rootSpanTimer = 0

\* C8: a lookup that throws while the metadata is extracted does not leave the
\* handler: a warning is logged, the capture is scheduled with what was extracted
\* before the failure, and the previous handler is called.
ExtractionFails(c) ==
  c.vm.throws = "name" \/ (c.vm.throws = "props" /\ options.attachProps)

C8_ExtractionFailureContained ==
  \A i \in DOMAIN calls :
    LET c == calls[i] IN
    ExtractionFails(c) =>
      /\ ~c.thrown
      /\ c.warned
      /\ "Unable to extract metadata from Vue component." \in warnings
      /\ CaptureCount(i) = 1
      /\ hostHandler => Len(c.host) = 1
      /\ \A m \in MetadataOf(i) :
           /\ "propsData" \notin m.keys
           /\ "componentName" \in m.keys <=> c.vm.throws = "props"

\* C8 witness: the props lookup failed after the name was found; the exception was
\* captured with the name only and the previous handler was called.
C8_Witness ==
  /\ hostHandler
  /\ \E j \in DOMAIN captured :
       LET c == calls[captured[j].call] IN
       /\ c.vm.throws = "props" /\ options.attachProps
       /\ c.warned /\ Len(c.host) = 1
       /\ captured[j].context.keys = {"componentName"}

\* C9: the "hooks not applied" warning is given exactly when the setup timer fires,
\* which it only does with its delay over and no instance installed; the first
\* install cancels the timer, so no warning follows an install; the warning
\* changes nothing else, and an instance installed after it gets its hooks.
SetupWarning == "Didn't apply tracing hooks"
AnyInstalled == \E uid \in Instances : installCache[uid]
KnownHooks ==
  {HOOKS[options.hooks[k]][n] :
     k \in {j \in DOMAIN options.hooks : options.hooks[j] \in DOMAIN HOOKS}, n \in {1, 2}}

C9_SetupTimer ==
  [][ /\ (SetupWarning \notin warnings /\ SetupWarning \in warnings')
           => /\ ~AnyInstalled /\ setupTimer = "pending" /\ clock >= SetupDelay
              /\ UNCHANGED << treeVars, engineVars, isUnmounted, clock, activeTx, txCount >>
      /\ (setupTimer = "pending" /\ setupTimer' = "fired") => SetupWarning \in warnings'
      /\ (SetupWarning \in warnings') <=> (setupTimer' = "fired")
      /\ AnyInstalled' => setupTimer' # "pending"
      /\ \A uid \in Instances :
           (~installCache[uid] /\ installCache'[uid]) => DOMAIN hookCbs'[uid] = KnownHooks
    ]_vars

\* C9 witness: the warning was given and an instance installed later has its hooks.
C9_Witness ==
  /\ setupTimer = "fired" /\ SetupWarning \in warnings
  /\ \E uid \in Instances : installCache[uid] /\ DOMAIN hookCbs[uid] = KnownHooks
  /\ KnownHooks # {}

\* C10 (as claimed): finish is invoked on a child span at most once.
C10_ChildFinishedOnce ==
  \A k \in DOMAIN spans : IsChildSpan(k) => spans[k].finishes <= 1

\* The engine after the framework has fired the two hooks of an operation on an
\* instance, the "before" hook and then the "after" hook, with nothing in between.
afterPair(uid, operation) ==
  LET b == callHooks([e |-> Engine, cbs |-> hookCbs[uid][HOOKS[operation][1]]], uid, 1)
      a == callHooks([e |-> b.e, cbs |-> hookCbs[uid][HOOKS[operation][2]]], uid, 1)
  IN  a.e

\* The operations whose hooks were injected on an instance.
ConfiguredOps(uid) == {o \in DOMAIN HOOKS : HOOKS[o][1] \in DOMAIN hookCbs[uid]}

\* The instance is between two pairs of the operation.
BetweenPairs(uid, operation) ==
  execCount(uid, HOOKS[operation][1]) = execCount(uid, HOOKS[operation][2])

\* C11 (as claimed): with no root span open and a transaction active, a complete
\* before/after pair of a configured operation on the root instance leaves a root
\* span open, for every transaction.
C11_RootSpanPerTrace ==
  \A operation \in ConfiguredOps(RootUid) :
    (rootSpan = 0 /\ activeTx # 0 /\ ~isUnmounted[RootUid]
       /\ BetweenPairs(RootUid, operation))
      => afterPair(RootUid, operation).rootSpan # 0

(***************************************************************************)
(* Idle close as a liveness question.  Time passes and a pending timer     *)
(* whose delay is over is run (the event loop); the framework may stop     *)
(* firing hooks at any moment, and does so early enough for every idle     *)
(* timer to come due within the time the clock covers.                     *)
(***************************************************************************)
LiveFire(uid, hook) ==
  /\ clock + options.timeout <= MaxTicks * TickMs
  /\ FirePaired(uid, hook)

LiveNext ==
  \/ Tick
  \/ StartTransaction
  \/ EndTransaction
  \/ \E uid \in Instances : BeforeCreate(uid)
  \/ SetupTimerFire
  \/ \E uid \in Instances, hook \in LifecycleHook : LiveFire(uid, hook)
  \/ \E uid \in Instances : Unmount(uid)
  \/ \E t \in timers : IdleTimerFire(t)

LiveSpec ==
  /\ Init
  /\ [][LiveNext]_vars
  /\ WF_vars(Tick)
  /\ WF_vars(\E t \in timers : IdleTimerFire(t))

\* Every instance is between two pairs of each of its operations.
AllBetweenPairs ==
  \A uid \in Instances : \A operation \in ConfiguredOps(uid) : BetweenPairs(uid, operation)

\* C12 (as claimed): a root span that is open (no pair of hooks left half done) is
\* closed in the end, by the idle timer, whether or not any hook fires again.
C12_IdleClose == (rootSpan # 0 /\ AllBetweenPairs) ~> (rootSpan = 0)

\* C13: an instance that went through the install step has one engine callback in
\* the list of each configured hook and none elsewhere, however often the step
\* ran; running the step again for it changes no hook list, name or cache.
C13_InstallOnce ==
  \A uid \in Instances :
    IF installCache[uid]
    THEN /\ DOMAIN hookCbs[uid] = KnownHooks
         /\ \A hook \in DOMAIN hookCbs[uid] : Len(hookCbs[uid][hook]) = 1
         /\ applyTracingHooks(uid) =
              [ installCache |-> installCache, nameCache |-> nameCache, names |-> names,
                cbs |-> hookCbs[uid], warnings |-> warnings ]
    ELSE hookCbs[uid] = << >>

\* C13 witness: an installed instance whose callbacks have run; the install step
\* run for it again leaves its hook lists, counters included, as they are.
C13_Witness ==
  \E uid \in Instances :
    /\ installCache[uid]
    /\ \E hook \in DOMAIN hookCbs[uid] : execCount(uid, hook) = 2
    /\ applyTracingHooks(uid).cbs = hookCbs[uid]
    /\ ENABLED BeforeCreate(uid)

\* C14: for an instance marked unmounted, calling the callbacks of any of its hooks
\* does nothing (no handler run: the engine and the counters stay as they are),
\* and no step changes its hook lists, its counters or its slots.
C14_UnmountedGuard ==
  [][ \A uid \in Instances :
        isUnmounted[uid] =>
          /\ \A hook \in DOMAIN hookCbs[uid] :
               callHooks([e |-> Engine, cbs |-> hookCbs[uid][hook]], uid, 1)
                 = [e |-> Engine, cbs |-> hookCbs[uid][hook]]
          /\ hookCbs'[uid] = hookCbs[uid]
          /\ slots'[uid] = slots[uid]
          /\ \A k \in DOMAIN spans : spans[k].inst = uid /\ IsChildSpan(k) => spans'[k] = spans[k]
          /\ isUnmounted'[uid]
    ]_vars

\* C14 witness: an unmounted instance with an open child span in its slot, while a
\* parent is there to be had: but for the guard, a firing of either hook would
\* finish the span and schedule the idle timer.
C14_Witness ==
  \E uid \in Instances \ {RootUid}, operation \in DOMAIN HOOKS :
    /\ isUnmounted[uid]
    /\ slotOf(Engine, uid, operation) # 0
    /\ spans[slotOf(Engine, uid, operation)].finishes = 0
    /\ childOf(Engine) # << >>
    /\ HOOKS[operation][2] \in DOMAIN hookCbs[uid]
    /\ execCount(uid, HOOKS[operation][2]) < MaxExec

\* The root spans on which finish was never invoked.
OpenRootSpans == {k \in DOMAIN spans : IsRootSpan(k) /\ spans[k].finishes = 0}

\* C15: a handler of the root instance called while a root span is open starts no
\* span and finishes none, keeps rootSpan, and leaves one idle timer pending, set
\* for now + timeout and holding now; no root span is open other than rootSpan;
\* rootSpan is emptied by the idle timer only.
C15_RootFiringReschedules ==
  [][ /\ \A hook \in LifecycleHook :
           (Called(RootUid, hook) /\ rootSpan # 0)
             => /\ spans' = spans /\ rootSpan' = rootSpan /\ slots' = slots
                /\ timers' = {[id |-> rootSpanTimer', ts |-> clock,
                               due |-> clock + options.timeout]}
      /\ OpenRootSpans' \subseteq {rootSpan'}
      /\ (rootSpan # 0 /\ rootSpan' = 0) => \E t \in timers : IdleTimerFire(t)
    ]_vars

\* C15 witness: components are not tracked, so only the root's handlers schedule
\* the idle timer; a root span is open and a root firing has scheduled its close.
C15_Witness ==
  /\ ~options.trackComponents.isArray /\ ~options.trackComponents.flag
  /\ rootSpan # 0 /\ spans[rootSpan].finishes = 0
  /\ lastCall.root = rootSpan /\ lastCall.n >= 1
  /\ \E t \in timers : t.id = rootSpanTimer /\ t.ts >= spans[rootSpan].start

\* C16: at most one idle timer is pending, and it is the one this._rootSpanTimer
\* holds: a timer that was replaced is gone and cannot finish the root span.
C16_SingleDebounceSlot ==
  /\ Cardinality(timers) <= 1
  /\ \A t \in timers : t.id = rootSpanTimer

\* C16 witness: the idle timer was scheduled, then scheduled again before it fired
\* (the root span has had two calls of _finishRootSpan), by a child completion
\* among others; one timer is pending.
C16_Witness ==
  /\ Cardinality(timers) = 1
  /\ rootSpan # 0 /\ lastCall.root = rootSpan /\ lastCall.n = 2
  /\ \E k \in DOMAIN spans : IsChildSpan(k) /\ spans[k].finishes >= 1

\* _getComponentName(instance) gets as far as the scans of the component registries
\* (the for-in loops): the type gave no name and the instance is not the root.
scansRegistries(cache, uid) ==
  getComponentTypeName(cache, TypeOf(uid)) = "" /\ ~IsRoot(uid)

\* C17 (as claimed): once the name of an instance was resolved by a scan and saved,
\* resolving it again gives the same name without a scan of the registries.
C17_NameMemoized ==
  \A uid \in Instances :
    nameCache[uid] # "" =>
      /\ getComponentName(nameCache, uid).name = nameCache[uid]
      /\ ~scansRegistries(nameCache, uid)

\* C18: a child span is started under the root span if one is open when it is
\* started, and under the active transaction (there is one then) if none is.
C18_ParentSelection ==
  [][ \A k \in DOMAIN spans' :
        (k \notin DOMAIN spans /\ spans'[k].op # "Vue")
          => IF rootSpan # 0
             THEN spans'[k].parent = <<"span", rootSpan>>
             ELSE activeTx # 0 /\ spans'[k].parent = <<"tx", activeTx>>
    ]_vars

\* C18 witness: a child span under a root span that was started before it and was
\* still open when the child span was started.
C18_Witness ==
  \E k \in DOMAIN spans, r \in DOMAIN spans :
    /\ IsChildSpan(k) /\ IsRootSpan(r)
    /\ spans[k].parent = <<"span", r>>
    /\ r < k
    /\ spans[r].finishes = 0 \/ spans[r].endTimestamp >= spans[k].start

\* C19 (as claimed): a root span is never finished with a timestamp earlier than
\* the moment it was started.
C19_FinishAfterStart ==
  \A k \in DOMAIN spans :
    (IsRootSpan(k) /\ spans[k].finishes >= 1) => spans[k].endTimestamp >= spans[k].start

\* The transactions of an operation the instrumentation has started.
Started(op) == {i \in DOMAIN router.txs : router.txs[i].op = op}

\* C20 (as claimed): with both options on, one "pageload" transaction is started,
\* after the router was ready, no "navigation" transaction is started before it,
\* and the guard calls next once for every navigation it sees.
C20_PageloadBeforeNavigation ==
  (router.installed /\ router.onPageLoad /\ router.onLocationChange) =>
    /\ Cardinality(Started("pageload")) = IF router.awaiting THEN 0 ELSE 1
    /\ \A i \in Started("pageload") : router.txs[i].ready
    /\ \A i \in Started("navigation"), j \in Started("pageload") : j < i
    /\ \A n \in DOMAIN router.nexts : router.nexts[n] = 1

====
